---- MODULE Spec2Model ----
(***************************************************************************)
(* CrosswordCreator.solve (generate.py): node consistency, AC-3 and the    *)
(* recursive backtracking search, as a state machine.  A word is a         *)
(* sequence of letters, so that len(word) and word[i] are what the code    *)
(* computes on strings (indices are 0-based in the code and in overlaps,   *)
(* 1-based in the sequences: Letter(w, i) is w[i]).                        *)
(***************************************************************************)
EXTENDS Integers, Sequences, FiniteSets, TLC

VARIABLES
    crossword,    \* self.crossword: variables, length, overlaps, words
    varOrder,     \* iteration order of self.crossword.variables / self.domains
    domains,      \* self.domains
    pc,           \* where solve() is: "node", "ac3", "search", "done"; for
                  \* a caller of the single methods also "idle", "returned"
    ncPos,        \* position of the loop of enforce_node_consistency
    queue,        \* the local queue of ac3
    ac3Result,    \* "notrun", "running", "True", "False"
    assignment,   \* the dict passed along backtrack: DOMAIN = its keys
    stack,        \* the frames of backtrack that are in their for loop
    bt,           \* where the innermost backtrack is: "call", "loop", "check"
    outcome,      \* "running", "raise_node", "raise_select", "return_None",
                  \* "return_assignment"
    errVar,       \* the variable named by the ValueError of line 108
    ran           \* which steps have run so far: revise, select, assign;
                  \* selected: the variables select_unassigned_variable
                  \* has returned, in order;
                  \* returned: the call a caller has just got back, with
                  \* its arguments and the value returned

vars == <<crossword, varOrder, domains, pc, ncPos, queue, ac3Result,
          assignment, stack, bt, outcome, errVar, ran>>

-----------------------------------------------------------------------------
(* Bounds and inputs *)

\* largest word list handed to Crossword
MaxWords == 3

\* longest list of arcs a caller hands to ac3(arcs)
MaxArcs == 1

\* most keys of an assignment a caller hands to order_domain_values
MaxKeys == 1

\* Python's None (no word is the empty string)
None == <<>>

ab == <<"a", "b">>
ca == <<"c", "a">>
cc == <<"c", "c">>
cat == <<"c", "a", "t">>
tap == <<"t", "a", "p">>

Vocabulary == {ab, ca, cc, cat, tap}

WordLists == {W \in SUBSET Vocabulary : Cardinality(W) <= MaxWords}

Pairs(V) == {p \in V \X V : p[1] # p[2]}

\* one slot of length 3 (scenario A of the specification)
GridSingle ==
    [variables |-> {"X"},
     length    |-> [v \in {"X"} |-> 3],
     overlaps  |-> [p \in Pairs({"X"}) |-> None]]

\* X across, Y down from the last cell of X (scenario B): X[2] == Y[0]
GridCross ==
    [variables |-> {"X", "Y"},
     length    |-> [v \in {"X", "Y"} |-> 3],
     overlaps  |-> [p \in Pairs({"X", "Y"}) |->
                      IF p = <<"X", "Y">> THEN <<2, 0>> ELSE <<0, 2>>]]

\* X across and Y down from the same cell: X[0] == Y[0]
GridCorner ==
    [variables |-> {"X", "Y"},
     length    |-> [v \in {"X", "Y"} |-> 2],
     overlaps  |-> [p \in Pairs({"X", "Y"}) |-> <<0, 0>>]]

\* Z down into the first cell of X, Y down from the last cell of X
GridChain ==
    [variables |-> {"X", "Y", "Z"},
     length    |-> [v \in {"X", "Y", "Z"} |-> 2],
     overlaps  |-> [p \in Pairs({"X", "Y", "Z"}) |->
                      CASE p = <<"X", "Z">> -> <<0, 1>>
                        [] p = <<"Z", "X">> -> <<1, 0>>
                        [] p = <<"X", "Y">> -> <<1, 0>>
                        [] p = <<"Y", "X">> -> <<0, 1>>
                        [] OTHER -> None]]

\* two slots that do not cross, of lengths 2 and 3
GridApart ==
    [variables |-> {"X", "Y"},
     length    |-> [v \in {"X", "Y"} |-> IF v = "X" THEN 2 ELSE 3],
     overlaps  |-> [p \in Pairs({"X", "Y"}) |-> None]]

\* three slots of length 2, none crossing another
GridThree ==
    [variables |-> {"X", "Y", "Z"},
     length    |-> [v \in {"X", "Y", "Z"} |-> 2],
     overlaps  |-> [p \in Pairs({"X", "Y", "Z"}) |-> None]]

Grids == {GridSingle, GridCross, GridCorner, GridChain, GridApart, GridThree}

Crosswords ==
    {[variables |-> g.variables, length |-> g.length,
      overlaps |-> g.overlaps, words |-> W] : g \in Grids, W \in WordLists}

\* every order in which a set can be iterated
Orders(S) ==
    {s \in [1..Cardinality(S) -> S] : \A i, j \in DOMAIN s : i # j => s[i] # s[j]}

-----------------------------------------------------------------------------
(* Strings and the puzzle definition *)

\* word[i], i counted from 0
Letter(word, i) == word[i + 1]

\* len(word)
len(word) == Len(word)

\* Crossword.neighbors(var)
neighbors(var) ==
    {v \in crossword.variables :
        v # var /\ crossword.overlaps[<<v, var>>] # None}

\* the dict update assignment[var] = val
DictSet(d, key, val) ==
    [k \in DOMAIN d \cup {key} |-> IF k = key THEN val ELSE d[k]]

EmptyDict == [k \in {} |-> None]

-----------------------------------------------------------------------------
(* enforce_node_consistency *)

\* a filter that keeps the words that are not longer than the slot
NodeFilter_AtMost(dom, var) == {word \in dom : len(word) <= crossword.length[var]}

\* {word for word in self.domains[var] if len(word) == var.length}
NodeFilter(dom, var) == {word \in dom : len(word) = crossword.length[var]}

\* an emptiness test that never fires
NoValuesLeft_Never(dom) == FALSE

\* an emptiness test that is off by one
NoValuesLeft_OffByOne(dom) == Cardinality(dom) <= 1

\* not self.domains[var]
NoValuesLeft(dom) == dom = {}

\* one round of the loop over self.domains
enforce_node_consistency ==
    /\ pc = "node"
    /\ ncPos <= Len(varOrder)
    /\ LET var == varOrder[ncPos]
           dom == NodeFilter(domains[var], var)
       IN  /\ domains' = [domains EXCEPT ![var] = dom]
           /\ IF NoValuesLeft(dom)
              THEN /\ pc' = "done"
                   /\ outcome' = "raise_node"
                   /\ errVar' = var
                   /\ ncPos' = ncPos
              ELSE /\ ncPos' = ncPos + 1
                   /\ UNCHANGED <<pc, outcome, errVar>>
    /\ UNCHANGED <<crossword, varOrder, queue, ac3Result, assignment,
                   stack, bt, ran>>

-----------------------------------------------------------------------------
(* revise, get_arcs, ac3 *)

\* (x, y) in self.crossword.overlaps and self.crossword.overlaps[(x, y)] is not None
HasOverlap(x, y) ==
    /\ <<x, y>> \in DOMAIN crossword.overlaps
    /\ crossword.overlaps[<<x, y>>] # None

\* the two indices of the overlap taken the wrong way round
Supported_Swapped(doms, x, y, vx) ==
    LET i == crossword.overlaps[<<x, y>>][1]
        j == crossword.overlaps[<<x, y>>][2]
    IN  \E vy \in doms[y] : Letter(vx, j) = Letter(vy, i)

\* any(vx[i] == vy[j] for vy in self.domains[y])
Supported(doms, x, y, vx) ==
    LET i == crossword.overlaps[<<x, y>>][1]
        j == crossword.overlaps[<<x, y>>][2]
    IN  \E vy \in doms[y] : Letter(vx, i) = Letter(vy, j)

\* values_to_remove of revise(x, y); empty when there is no overlap
values_to_remove(doms, x, y) ==
    IF ~HasOverlap(x, y) THEN {}
    ELSE {vx \in doms[x] : ~Supported(doms, x, y, vx)}

\* domains[x] rebuilt from the word list instead of pruned in place
revise_FromWords(doms, x, y) ==
    [doms EXCEPT ![x] =
        IF ~HasOverlap(x, y) THEN doms[x]
        ELSE {vx \in NodeFilter(crossword.words, x) : Supported(doms, x, y, vx)}]

\* self.domains after revise(x, y)
revise(doms, x, y) ==
    [doms EXCEPT ![x] = doms[x] \ values_to_remove(doms, x, y)]

\* the value revise(x, y) returns
revised(doms, x, y) == values_to_remove(doms, x, y) # {}

\* the arcs (X, Y) of one X, in an order of neighbors(X)
ArcsOf(X, order) == [k \in DOMAIN order |-> <<X, order[k]>>]

\* the lists get_arcs can return, variables from position i on
RECURSIVE ArcsFrom(_)
ArcsFrom(i) ==
    IF i > Len(varOrder) THEN {<<>>}
    ELSE {ArcsOf(varOrder[i], o) \o rest :
             o \in Orders(neighbors(varOrder[i])), rest \in ArcsFrom(i + 1)}

get_arcs == ArcsFrom(1)

\* solve goes on to self.ac3(): queue = self.get_arcs()
ac3_begin ==
    /\ pc = "node"
    /\ ncPos > Len(varOrder)
    /\ queue' \in get_arcs
    /\ pc' = "ac3"
    /\ ac3Result' = "running"
    /\ UNCHANGED <<crossword, varOrder, domains, ncPos, assignment, stack,
                   bt, outcome, errVar, ran>>

\* the head of the queue read but left in place
Popped_Peek(q) == q

\* queue after queue.pop(0)
Popped(q) == Tail(q)

\* nothing is put back on the queue
Requeued_None(X, Y) == {}

\* the Z for which (Z, X) is appended after revise(X, Y) returned True
Requeued(X, Y) == neighbors(X) \ {Y}

\* the arcs appended, in an order of the neighbours
ArcsTo(X, order) == [k \in DOMAIN order |-> <<order[k], X>>]

\* one round of the while loop of ac3; ret is where its caller goes on
Ac3Step(ret) ==
    /\ pc = "ac3"
    /\ queue # <<>>
    /\ LET X == Head(queue)[1]
           Y == Head(queue)[2]
           doms == revise(domains, X, Y)
       IN  /\ domains' = doms
           /\ ran' = [ran EXCEPT !.revise = TRUE]
           /\ IF revised(domains, X, Y)
              THEN IF NoValuesLeft(doms[X])
                   THEN \* return False
                        /\ ac3Result' = "False"
                        /\ pc' = ret
                        /\ queue' = Popped(queue)
                   ELSE /\ \E o \in Orders(Requeued(X, Y)) :
                              queue' = Popped(queue) \o ArcsTo(X, o)
                        /\ UNCHANGED <<ac3Result, pc>>
              ELSE /\ queue' = Popped(queue)
                   /\ UNCHANGED <<ac3Result, pc>>
    /\ UNCHANGED <<crossword, varOrder, ncPos, assignment, stack, bt,
                   outcome, errVar>>

\* the queue is exhausted: return True
Ac3Return(ret) ==
    /\ pc = "ac3"
    /\ queue = <<>>
    /\ ac3Result' = "True"
    /\ pc' = ret
    /\ UNCHANGED <<crossword, varOrder, domains, ncPos, queue, assignment,
                   stack, bt, outcome, errVar, ran>>

\* ac3 as solve runs it: whatever it returns, solve calls backtrack(dict())
ac3_step == Ac3Step("search")

ac3_return == Ac3Return("search")

-----------------------------------------------------------------------------
(* assignment_complete, consistent, the two heuristics *)

assignment_complete(a) ==
    \A var \in crossword.variables : var \in DOMAIN a /\ a[var] # None

\* the uniqueness test left out
DuplicateValues_Never(a) == FALSE

\* len(values) != len(set(values)): two keys hold the same value, None included
DuplicateValues(a) == \E u, v \in DOMAIN a : u # v /\ a[u] = a[v]

\* the overlap test left out
OverlapAgrees_Skipped(a, var, other_var) == TRUE

\* val[var_pos] == other_val[other_var_pos] at overlaps[(var, other_var)]
OverlapAgrees(a, var, other_var) ==
    LET var_pos == crossword.overlaps[<<var, other_var>>][1]
        other_var_pos == crossword.overlaps[<<var, other_var>>][2]
    IN  Letter(a[var], var_pos) = Letter(a[other_var], other_var_pos)

consistent(a) ==
    /\ ~DuplicateValues(a)
    /\ \A var \in DOMAIN a :
          a[var] # None =>
             /\ len(a[var]) = crossword.length[var]
             /\ \A other_var \in neighbors(var) :
                   ( /\ other_var \in DOMAIN a
                     /\ a[other_var] # None
                     /\ <<var, other_var>> \in DOMAIN crossword.overlaps )
                   => OverlapAgrees(a, var, other_var)

\* len(self.domains[neighbor]) - len([val for val in ... if val != value])
RuledOut(neighbor, value) ==
    Cardinality(domains[neighbor])
      - Cardinality({val \in domains[neighbor] : val # value})

RECURSIVE SumRuledOut(_, _)
SumRuledOut(N, value) ==
    IF N = {} THEN 0
    ELSE LET n == CHOOSE n \in N : TRUE
         IN  RuledOut(n, value) + SumRuledOut(N \ {n}, value)

\* count_conflicts(value) inside order_domain_values(var, assignment)
count_conflicts(var, a, value) ==
    SumRuledOut({n \in neighbors(var) : n \notin DOMAIN a}, value)

\* the words of the domain in any order, the sort left out
order_domain_values_Unsorted(var, a) == Orders(domains[var])

\* the lists sorted(self.domains[var], key=count_conflicts) can return: the
\* sort is stable and the set is iterated in an order of its own
order_domain_values(var, a) ==
    {s \in Orders(domains[var]) :
        \A i, j \in DOMAIN s :
           i < j => count_conflicts(var, a, s[i]) <= count_conflicts(var, a, s[j])}

\* [var for var in self.domains if var not in assignment]
unassigned(a) == SelectSeq(varOrder, LAMBDA var : var \notin DOMAIN a)

\* degree(var) inside select_unassigned_variable
degree(var) ==
    Cardinality({other \in crossword.variables :
                    other # var /\ domains[var] \cap domains[other] # {}})

\* (len(self.domains[u]), -degree(u)) < (len(self.domains[v]), -degree(v))
KeyLess(u, v) ==
    \/ Cardinality(domains[u]) < Cardinality(domains[v])
    \/ /\ Cardinality(domains[u]) = Cardinality(domains[v])
       /\ degree(u) > degree(v)

\* min(unassigned, key=...): the first of the smallest
select_unassigned_variable(a) ==
    LET un == unassigned(a)
        i  == CHOOSE i \in DOMAIN un :
                 /\ \A j \in DOMAIN un : ~KeyLess(un[j], un[i])
                 /\ \A j \in 1..(i - 1) : KeyLess(un[i], un[j])
    IN  un[i]

-----------------------------------------------------------------------------
(* backtrack *)

\* the tentative word is left in place
Undo_Keep(a, var) == a

\* the key is removed from the dict
Undo_Remove(a, var) == [v \in DOMAIN a \ {var} |-> a[v]]

\* assignment[var] = None
Undo(a, var) == DictSet(a, var, None)

Top == stack[Len(stack)]

\* backtrack is entered: lines 276 to 279, up to the start of the for loop
backtrack_call ==
    /\ pc = "search"
    /\ bt = "call"
    /\ IF assignment_complete(assignment)
       THEN /\ outcome' = "return_assignment"
            /\ pc' = "done"
            /\ stack' = <<>>
            /\ UNCHANGED <<bt, ran>>
       ELSE IF unassigned(assignment) = <<>>
            THEN \* min() of an empty list raises ValueError
                 /\ ran' = [ran EXCEPT !.select = TRUE]
                 /\ outcome' = "raise_select"
                 /\ pc' = "done"
                 /\ stack' = <<>>
                 /\ UNCHANGED bt
            ELSE LET var == select_unassigned_variable(assignment)
                 IN  /\ ran' = [ran EXCEPT !.select = TRUE,
                                           !.selected = Append(@, var)]
                     /\ \E values \in order_domain_values(var, assignment) :
                           stack' = Append(stack,
                               [var |-> var, values |-> values,
                                entry |-> assignment])
                     /\ bt' = "loop"
                     /\ UNCHANGED <<outcome, pc>>
    /\ UNCHANGED <<crossword, varOrder, domains, ncPos, queue, ac3Result,
                   assignment, errVar>>

\* the word tried is also made the only word of the variable's domain
backtrack_assign_Pruning ==
    /\ pc = "search"
    /\ bt = "loop"
    /\ stack # <<>>
    /\ Top.values # <<>>
    /\ assignment' = DictSet(assignment, Top.var, Head(Top.values))
    /\ domains' = [domains EXCEPT ![Top.var] = {Head(Top.values)}]
    /\ stack' = [stack EXCEPT ![Len(stack)].values = Tail(Top.values)]
    /\ bt' = "check"
    /\ ran' = [ran EXCEPT !.assign = TRUE]
    /\ UNCHANGED <<crossword, varOrder, pc, ncPos, queue, ac3Result,
                   outcome, errVar>>

\* the for loop takes its next word: assignment[var] = word
backtrack_assign ==
    /\ pc = "search"
    /\ bt = "loop"
    /\ stack # <<>>
    /\ Top.values # <<>>
    /\ assignment' = DictSet(assignment, Top.var, Head(Top.values))
    /\ stack' = [stack EXCEPT ![Len(stack)].values = Tail(Top.values)]
    /\ bt' = "check"
    /\ ran' = [ran EXCEPT !.assign = TRUE]
    /\ UNCHANGED <<crossword, varOrder, domains, pc, ncPos, queue, ac3Result,
                   outcome, errVar>>

\* if self.consistent(assignment): recurse, else assignment[var] = None
backtrack_check ==
    /\ pc = "search"
    /\ bt = "check"
    /\ IF consistent(assignment)
       THEN /\ bt' = "call"
            /\ UNCHANGED assignment
       ELSE /\ bt' = "loop"
            /\ assignment' = Undo(assignment, Top.var)
    /\ UNCHANGED <<crossword, varOrder, domains, pc, ncPos, queue, ac3Result,
                   stack, outcome, errVar, ran>>

\* the for loop is exhausted: return None; the caller, if any, finds
\* result is None and sets its own assignment[var] = None
backtrack_fail ==
    /\ pc = "search"
    /\ bt = "loop"
    /\ stack # <<>>
    /\ Top.values = <<>>
    /\ stack' = SubSeq(stack, 1, Len(stack) - 1)
    /\ IF Len(stack) = 1
       THEN /\ outcome' = "return_None"
            /\ pc' = "done"
            /\ UNCHANGED assignment
       ELSE /\ assignment' = Undo(assignment, stack[Len(stack) - 1].var)
            /\ UNCHANGED <<outcome, pc>>
    /\ UNCHANGED <<crossword, varOrder, domains, ncPos, queue, ac3Result,
                   bt, errVar, ran>>

-----------------------------------------------------------------------------

\* no call has returned to a caller
NoCall == [fn |-> "none"]

Init ==
    /\ crossword \in Crosswords
    /\ varOrder \in Orders(crossword.variables)
    /\ domains = [var \in crossword.variables |-> crossword.words]
    /\ pc = "node"
    /\ ncPos = 1
    /\ queue = <<>>
    /\ ac3Result = "notrun"
    /\ assignment = EmptyDict
    /\ stack = <<>>
    /\ bt = "call"
    /\ outcome = "running"
    /\ errVar = None
    /\ ran = [revise |-> FALSE, select |-> FALSE, assign |-> FALSE,
              selected |-> <<>>, returned |-> NoCall]

Next ==
    \/ enforce_node_consistency
    \/ ac3_begin
    \/ ac3_step
    \/ ac3_return
    \/ backtrack_call
    \/ backtrack_assign
    \/ backtrack_check
    \/ backtrack_fail

Spec == Init /\ [][Next]_vars

-----------------------------------------------------------------------------
(* The methods called one by one by a caller other than solve: after       *)
(* construction and enforce_node_consistency(), any sequence of            *)
(* enforce_node_consistency(), revise(x, y), ac3() and ac3(arcs)           *)

\* the lists a caller can hand to ac3(arcs): any pairs of variables
ArcLists ==
    UNION {[1..n -> crossword.variables \X crossword.variables] : n \in 0..MaxArcs}

\* enforce_node_consistency returns to the caller
node_returns ==
    /\ pc = "node"
    /\ ncPos > Len(varOrder)
    /\ pc' = "idle"
    /\ UNCHANGED <<crossword, varOrder, domains, ncPos, queue, ac3Result,
                   assignment, stack, bt, outcome, errVar, ran>>

\* the caller calls enforce_node_consistency()
call_enforce_node_consistency ==
    /\ pc = "idle"
    /\ pc' = "node"
    /\ ncPos' = 1
    /\ UNCHANGED <<crossword, varOrder, domains, queue, ac3Result,
                   assignment, stack, bt, outcome, errVar, ran>>

\* the caller calls revise(x, y)
call_revise ==
    /\ pc = "idle"
    /\ \E x, y \in crossword.variables : domains' = revise(domains, x, y)
    /\ ran' = [ran EXCEPT !.revise = TRUE]
    /\ UNCHANGED <<crossword, varOrder, pc, ncPos, queue, ac3Result,
                   assignment, stack, bt, outcome, errVar>>

\* the caller calls ac3(): queue = self.get_arcs()
call_ac3 ==
    /\ pc = "idle"
    /\ queue' \in get_arcs
    /\ pc' = "ac3"
    /\ ac3Result' = "running"
    /\ UNCHANGED <<crossword, varOrder, domains, ncPos, assignment, stack,
                   bt, outcome, errVar, ran>>

\* the caller calls ac3(arcs): queue = arcs[:]
call_ac3_arcs ==
    /\ pc = "idle"
    /\ queue' \in ArcLists
    /\ pc' = "ac3"
    /\ ac3Result' = "running"
    /\ UNCHANGED <<crossword, varOrder, domains, ncPos, assignment, stack,
                   bt, outcome, errVar, ran>>

called_ac3_step == Ac3Step("idle")

called_ac3_return == Ac3Return("idle")

NextCalls ==
    \/ enforce_node_consistency
    \/ node_returns
    \/ call_enforce_node_consistency
    \/ call_revise
    \/ call_ac3
    \/ call_ac3_arcs
    \/ called_ac3_step
    \/ called_ac3_return

CallSpec == Init /\ [][NextCalls]_vars

\* a call of ac3 that has started keeps running: the program is one thread
\* and nothing suspends it
FairCallSpec ==
    CallSpec /\ WF_vars(called_ac3_step) /\ WF_vars(called_ac3_return)

-----------------------------------------------------------------------------
(* revise(x, y) and order_domain_values(var, assignment) called on their   *)
(* own, the caller looking at what each returns                            *)

\* the assignments a caller can hand over: a few variables as keys, each
\* mapped to None or to a word of the list
Assignments ==
    UNION {[S -> {None} \cup crossword.words] :
              S \in {T \in SUBSET crossword.variables : Cardinality(T) <= MaxKeys}}

\* the caller calls revise(x, y) and keeps the value returned
call_revise_returning ==
    /\ pc = "idle"
    /\ \E x, y \in crossword.variables :
          /\ domains' = revise(domains, x, y)
          /\ ran' = [ran EXCEPT !.revise = TRUE,
                                !.returned = [fn |-> "revise", x |-> x, y |-> y,
                                              before |-> domains,
                                              ret |-> revised(domains, x, y)]]
    /\ pc' = "returned"
    /\ UNCHANGED <<crossword, varOrder, ncPos, queue, ac3Result,
                   assignment, stack, bt, outcome, errVar>>

\* the caller calls order_domain_values(var, a) and keeps the list returned
call_order_domain_values ==
    /\ pc = "idle"
    /\ \E var \in crossword.variables, a \in Assignments :
          \E values \in order_domain_values(var, a) :
             ran' = [ran EXCEPT !.returned = [fn |-> "order_domain_values",
                                             var |-> var, a |-> a,
                                             ret |-> values]]
    /\ pc' = "returned"
    /\ UNCHANGED <<crossword, varOrder, domains, ncPos, queue, ac3Result,
                   assignment, stack, bt, outcome, errVar>>

\* the caller is done with the value and goes on to its next call
caller_resumes ==
    /\ pc = "returned"
    /\ pc' = "idle"
    /\ ran' = [ran EXCEPT !.returned = NoCall]
    /\ UNCHANGED <<crossword, varOrder, domains, ncPos, queue, ac3Result,
                   assignment, stack, bt, outcome, errVar>>

NextUnitCalls ==
    \/ enforce_node_consistency
    \/ node_returns
    \/ call_revise_returning
    \/ call_order_domain_values
    \/ caller_resumes

UnitCallSpec == Init /\ [][NextUnitCalls]_vars

-----------------------------------------------------------------------------
(* What the claims speak of *)

\* enforce_node_consistency has returned without raising
NodeDone == ncPos > Len(varOrder)

\* solve has ended
Ended == pc = "done"

\* a complete assignment of the kind the search looks for, within doms
IsSolution(s, doms) ==
    /\ \A v \in crossword.variables :
          s[v] \in doms[v] /\ Len(s[v]) = crossword.length[v]
    /\ \A u, v \in crossword.variables : u # v => s[u] # s[v]
    /\ \A u, v \in crossword.variables :
          (u # v /\ crossword.overlaps[<<u, v>>] # None) =>
             s[u][crossword.overlaps[<<u, v>>][1] + 1]
               = s[v][crossword.overlaps[<<u, v>>][2] + 1]

SolutionExists(doms) ==
    \E s \in [crossword.variables -> crossword.words] : IsSolution(s, doms)

\* the word list cut down to the words of each slot's length
LengthDomains ==
    [v \in crossword.variables |->
        {w \in crossword.words : Len(w) = crossword.length[v]}]

\* C1: backtracking completeness: when every domain is non-empty and the
\* domains hold a complete assignment that is pairwise distinct, of the right
\* lengths and agreeing at every overlap, backtrack (called by solve with the
\* empty assignment) returns a complete assignment
C1_BacktrackComplete ==
    ( /\ Ended
      /\ outcome # "raise_node"
      /\ \A v \in crossword.variables : domains[v] # {}
      /\ SolutionExists(domains) )
    => outcome = "return_assignment"

\* C2: when node consistency succeeds and no consistent complete assignment
\* exists, solve returns None and raises nothing
C2_NoSolutionReturnsNone ==
    ( /\ Ended
      /\ outcome # "raise_node"
      /\ ~SolutionExists(LengthDomains) )
    => outcome = "return_None"

\* C3: an assignment solve returns gives every variable a word, and no two
\* variables the same word
C3_ReturnedCompleteDistinct ==
    outcome = "return_assignment" =>
       /\ \A v \in crossword.variables :
             v \in DOMAIN assignment /\ assignment[v] # None
       /\ \A u, v \in crossword.variables :
             u # v => assignment[u] # assignment[v]

C3_Witness ==
    /\ outcome = "return_assignment"
    /\ Cardinality(crossword.variables) = 3
    /\ \E v \in crossword.variables : Cardinality(domains[v]) > 1

\* C4: in an assignment solve returns, every pair of neighbours agrees at its
\* recorded overlap and every word has its variable's length
C4_ReturnedOverlapsAgree ==
    outcome = "return_assignment" =>
       /\ \A v \in crossword.variables :
             Len(assignment[v]) = crossword.length[v]
       /\ \A u, v \in crossword.variables :
             (u # v /\ crossword.overlaps[<<u, v>>] # None) =>
                assignment[u][crossword.overlaps[<<u, v>>][1] + 1]
                  = assignment[v][crossword.overlaps[<<u, v>>][2] + 1]

\* scenario B: X = "cat", Y = "tap" with X[2] == Y[0]
C4_Witness ==
    /\ outcome = "return_assignment"
    /\ crossword.variables = {"X", "Y"}
    /\ crossword.overlaps[<<"X", "Y">>] = <<2, 0>>
    /\ assignment["X"] = cat
    /\ assignment["Y"] = tap

\* the word list holds no word of the length of var
NoWordOfLength(var) ==
    \A w \in crossword.words : Len(w) # crossword.length[var]

\* C5: when some variable has no word of its length, solve never gets past
\* enforce_node_consistency: no revise and no assignment step runs, and when
\* solve has ended it has raised the ValueError for a variable whose pruned
\* domain is empty
C5_NodeFailureAborts ==
    (\E var \in crossword.variables : NoWordOfLength(var)) =>
       /\ pc \in {"node", "done"}
       /\ ~NodeDone
       /\ ac3Result = "notrun"
       /\ ~ran.revise /\ ~ran.select /\ ~ran.assign
       /\ assignment = EmptyDict
       /\ Ended =>
             /\ outcome = "raise_node"
             /\ errVar \in crossword.variables
             /\ domains[errVar] = {}
             /\ NoWordOfLength(errVar)

\* the error is raised for the second variable, after the first was pruned
C5_Witness ==
    /\ Ended
    /\ outcome = "raise_node"
    /\ ncPos = 2
    /\ domains[varOrder[1]] # {}
    /\ domains[errVar] = {}

\* C6: when ac3 has returned False, solve returns None: no assignment, no
\* exception
C6_Ac3FalseReturnsNone ==
    ac3Result = "False" =>
       /\ outcome \in {"running", "return_None"}
       /\ Ended => outcome = "return_None"

C6_Witness ==
    /\ ac3Result = "False"
    /\ Ended
    /\ outcome = "return_None"
    /\ \E v \in crossword.variables : domains[v] = {}

\* every word of domains[X] has a word of domains[Y] agreeing at the overlap
ArcConsistent(X, Y) ==
    \A vx \in domains[X] :
       \E vy \in domains[Y] :
          vx[crossword.overlaps[<<X, Y>>][1] + 1]
            = vy[crossword.overlaps[<<X, Y>>][2] + 1]

\* C7: after ac3, seeded with all neighbour arcs, has returned True, every
\* ordered pair of neighbours is arc consistent
C7_Ac3Sound ==
    ac3Result = "True" =>
       \A X, Y \in crossword.variables :
          (X # Y /\ crossword.overlaps[<<X, Y>>] # None) => ArcConsistent(X, Y)

\* ac3 returned True after removing words from two domains of a chain
C7_Witness ==
    /\ ac3Result = "True"
    /\ Cardinality(crossword.variables) = 3
    /\ \E u, v \in crossword.variables :
          /\ u # v
          /\ domains[u] # LengthDomains[u]
          /\ domains[v] # LengthDomains[v]

\* C8: domain monotonicity: over any sequence of enforce_node_consistency,
\* revise and ac3 calls, every step leaves each domain a subset of what it was
C8_DomainsOnlyShrink ==
    [][\A var \in crossword.variables : domains'[var] \subseteq domains[var]]_vars

\* a domain pruned first by enforce_node_consistency, then by revise, after
\* a call of ac3 and a later call of revise
C8_Witness ==
    /\ \E var \in crossword.variables :
          /\ LengthDomains[var] # crossword.words
          /\ domains[var] # LengthDomains[var]
          /\ domains[var] # {}
    /\ \E var \in crossword.variables : domains[var] = {}
    /\ ac3Result = "True"
    /\ pc = "idle"

\* C9: ac3 terminates: a call of ac3, whatever the domains and the arcs it is
\* given, returns (the queue is exhausted or a domain is emptied)
C9_Ac3Terminates == (pc = "ac3") ~> (pc # "ac3")

\* a call of ac3 on a chain of three slots has returned, a domain pruned
C9_Witness ==
    /\ pc = "idle"
    /\ ac3Result \in {"True", "False"}
    /\ \E var \in crossword.variables : domains[var] # LengthDomains[var]
    /\ Cardinality(crossword.variables) = 3

\* C10: once enforce_node_consistency has completed without error, every
\* word of every domain has its variable's length, through ac3 and the search
C10_LengthsKept ==
    NodeDone =>
       \A var \in crossword.variables :
          \A word \in domains[var] : Len(word) = crossword.length[var]

\* words of another length were in the list and solve went through to the end
C10_Witness ==
    /\ NodeDone
    /\ Ended
    /\ outcome = "return_assignment"
    /\ \E word \in crossword.words :
          \E var \in crossword.variables : Len(word) # crossword.length[var]
    /\ ran.revise

\* the variables that hold a word in a: keys not mapped to None
HasWord(a) == {v \in DOMAIN a : a[v] # None}

\* the three checks of the consistency predicate, on the non-null words only
WordsConsistent(a) ==
    /\ \A u, v \in HasWord(a) : u # v => a[u] # a[v]
    /\ \A v \in HasWord(a) : Len(a[v]) = crossword.length[v]
    /\ \A u, v \in HasWord(a) :
          (u # v /\ crossword.overlaps[<<u, v>>] # None) =>
             a[u][crossword.overlaps[<<u, v>>][1] + 1]
               = a[v][crossword.overlaps[<<u, v>>][2] + 1]

\* C11: consistent ignores unassigned variables: whatever variables are
\* absent or mapped to None, it returns True exactly when the non-null words
\* are pairwise distinct, of their variables' lengths and agreeing at the
\* overlaps (checked where backtrack calls it, line 281)
C11_ConsistentSkipsUnassigned ==
    (pc = "search" /\ bt = "check") =>
       (consistent(assignment) <=> WordsConsistent(assignment))

\* the variables without a word in a: absent from a or mapped to None
NoWord(a) == crossword.variables \ HasWord(a)

\* var is a smallest-domain variable of U, of the highest degree among those
MinimumRemaining(var, U) == var \in U /\ \A u \in U : ~KeyLess(u, var)

\* C12: whenever backtrack finds the assignment incomplete,
\* select_unassigned_variable returns a variable (it does not raise), the
\* variable has no word in the assignment backtrack was entered with, and
\* among all the variables without a word it has the smallest domain, ties
\* broken by the highest degree
C12_SelectPicksUnassignedMRV ==
    /\ outcome # "raise_select"
    /\ \A i \in DOMAIN stack :
          MinimumRemaining(stack[i].var, NoWord(stack[i].entry))

\* the call that has just returned to the caller is one of fn
Returned(fn) == pc = "returned" /\ ran.returned.fn = fn

\* the sum of count[n] over the n of N
RECURSIVE SumOver(_, _)
SumOver(N, count) ==
    IF N = {} THEN 0
    ELSE LET n == CHOOSE n \in N : TRUE
         IN  count[n] + SumOver(N \ {n}, count)

\* values lists every word of domains[var] once, a word of smaller score
\* never after one of larger score
AscendingBy(values, var, score) ==
    /\ Len(values) = Cardinality(domains[var])
    /\ {values[i] : i \in DOMAIN values} = domains[var]
    /\ \A i, j \in DOMAIN values :
          i < j => score[values[i]] <= score[values[j]]

\* over the neighbours of var without a word in a (absent or None), the
\* words of the neighbour's domain that are not equal to value
NotEqualScore(var, a) ==
    [value \in domains[var] |->
        SumOver(neighbors(var) \cap NoWord(a),
                [n \in neighbors(var) |->
                    Cardinality({val \in domains[n] : val # value})])]

\* over the neighbours of var that are not keys of a, the words of the
\* neighbour's domain that are equal to value
EqualScore(var, a) ==
    [value \in domains[var] |->
        SumOver(neighbors(var) \ DOMAIN a,
                [n \in neighbors(var) |->
                    Cardinality({val \in domains[n] : val = value})])]

\* C13 as stated: order_domain_values(var, assignment) returns the words of
\* domains[var] in ascending order of the sum, over the unassigned
\* neighbours of var, of the number of words in the neighbour's domain that
\* are not equal to the candidate word
C13_AscendingByNotEqual ==
    Returned("order_domain_values") =>
       AscendingBy(ran.returned.ret, ran.returned.var,
                   NotEqualScore(ran.returned.var, ran.returned.a))

\* C13 amended: order_domain_values(var, assignment) returns the words of
\* domains[var] in ascending order of the sum, over the neighbours of var
\* that are not keys of the assignment, of the number of words in the
\* neighbour's domain that are equal to the candidate word
C13_AscendingByEqual ==
    Returned("order_domain_values") =>
       AscendingBy(ran.returned.ret, ran.returned.var,
                   EqualScore(ran.returned.var, ran.returned.a))

\* a list has come back whose first and last word differ in score
C13_Witness ==
    /\ Returned("order_domain_values")
    /\ ran.returned.ret # <<>>
    /\ LET score == EqualScore(ran.returned.var, ran.returned.a)
           ret   == ran.returned.ret
       IN  score[ret[1]] < score[ret[Len(ret)]]

\* C14: AC-3 failure short-circuits search: in a run of solve where ac3 has
\* returned False, backtrack is not started: no variable is selected and no
\* tentative assignment is made
C14_Ac3FailureStopsSearch ==
    ac3Result = "False" => (~ran.select /\ ~ran.assign)

\* no variable's domain is empty in doms
NoEmptyDomain(doms) == \A v \in crossword.variables : doms[v] # {}

\* C15: while ac3 runs on a store that had no empty domain when it started
\* (and so has none before any round that is reached), ac3 returns False
\* exactly in the round whose revise leaves a domain empty, and returns in
\* that round, the rest of the queue left; it returns True only on an
\* exhausted queue, and then no domain is empty
C15_Ac3ReturnsFalseOnEmptied ==
    [][(pc = "ac3" /\ NoEmptyDomain(domains)) =>
          /\ (ac3Result' = "False") <=> ~NoEmptyDomain(domains')
          /\ (ac3Result' = "False") => pc' # "ac3"
          /\ (ac3Result' # "False" /\ pc' # "ac3") =>
                (ac3Result' = "True" /\ queue = <<>> /\ NoEmptyDomain(domains'))
          /\ (ac3Result' = "True") => (queue = <<>> /\ NoEmptyDomain(domains'))
      ]_vars

\* ac3 has returned False on a store it emptied one domain of, with arcs
\* still in its queue
C15_Witness ==
    /\ pc = "idle"
    /\ ac3Result = "False"
    /\ queue # <<>>
    /\ Cardinality({v \in crossword.variables : domains[v] = {}}) = 1

\* the words of before[x] that agree with some word of before[y] at the
\* overlap (i, j) recorded for (x, y)
Kept(before, x, y) ==
    {vx \in before[x] :
        \E vy \in before[y] :
           vx[crossword.overlaps[<<x, y>>][1] + 1]
             = vy[crossword.overlaps[<<x, y>>][2] + 1]}

\* C16: revise(X, Y) removes from domains[X] exactly the words that no word
\* of domains[Y] agrees with at the recorded overlap, leaves every other
\* domain as it was, and returns True iff a word was removed; with no
\* overlap recorded for (X, Y) it changes nothing and returns False
C16_ReviseExact ==
    Returned("revise") =>
       LET x == ran.returned.x
           y == ran.returned.y
           before == ran.returned.before
           recorded == /\ <<x, y>> \in DOMAIN crossword.overlaps
                       /\ crossword.overlaps[<<x, y>>] # None
       IN  /\ recorded => domains[x] = Kept(before, x, y)
           /\ \A v \in crossword.variables \ {x} : domains[v] = before[v]
           /\ ran.returned.ret <=> (domains[x] # before[x])
           /\ ~recorded => (domains = before /\ ~ran.returned.ret)

\* a revise has returned True having removed some words of X and kept others
C16_Witness ==
    /\ Returned("revise")
    /\ ran.returned.ret
    /\ domains[ran.returned.x] # {}
    /\ domains[ran.returned.x] # ran.returned.before[ran.returned.x]

\* C17: the backtracking search never mutates the domain store: from the
\* first call of backtrack until solve returns, every step leaves domains
\* as it is (only the assignment and the frames of the search change)
C17_SearchKeepsDomains ==
    [][pc = "search" => domains' = domains]_vars

\* the search is two calls deep and has undone a tentative word, on a store
\* that the propagation had pruned
C17_Witness ==
    /\ pc = "search"
    /\ Len(stack) >= 2
    /\ \E v \in DOMAIN assignment : assignment[v] = None
    /\ \E v \in crossword.variables : domains[v] # NodeFilter(crossword.words, v)

\* a call of backtrack is about to return None: its for loop is exhausted
ReturnsFailure ==
    pc = "search" /\ bt = "loop" /\ stack # <<>> /\ Top.values = <<>>

\* C18: undo on failure: whenever a call of backtrack returns None, every
\* variable that had a word when the call was entered maps to that same
\* word, and every variable that had none is without a word again (absent
\* or mapped to None)
C18_FailureRestoresEntry ==
    ReturnsFailure =>
       /\ \A v \in HasWord(Top.entry) :
             v \in DOMAIN assignment /\ assignment[v] = Top.entry[v]
       /\ \A v \in NoWord(Top.entry) : v \in NoWord(assignment)

\* a call made from inside the for loop of another returns None after it
\* has tried a word of its own
C18_Witness ==
    /\ ReturnsFailure
    /\ Len(stack) >= 2
    /\ HasWord(Top.entry) # {}
    /\ Top.var \in DOMAIN assignment

\* the variables select_unassigned_variable has returned so far
Selected == {ran.selected[i] : i \in DOMAIN ran.selected}

\* C19: in a run of solve in which ac3 returned True, no key ever leaves the
\* assignment, and select_unassigned_variable returns a variable only if
\* it has never returned it before and the variable has not been a key of
\* the assignment: each variable is selected at most once over the whole
\* search, also after its frame has returned failure
C19_SelectedAtMostOnce ==
    [][ac3Result = "True" =>
          /\ DOMAIN assignment \subseteq DOMAIN assignment'
          /\ DOMAIN assignment \subseteq Selected
          /\ ran'.selected # ran.selected =>
                \E var \in crossword.variables \ (Selected \cup DOMAIN assignment) :
                   ran'.selected = Append(ran.selected, var)
      ]_vars

\* after ac3 returned True the search goes on although the frame of a
\* variable selected earlier has returned failure: the variable is a key
\* mapped to None and no frame on the stack is its own
C19_Witness ==
    /\ ac3Result = "True"
    /\ pc = "search"
    /\ stack # <<>>
    /\ \E v \in Selected :
          /\ v \in DOMAIN assignment
          /\ assignment[v] = None
          /\ \A i \in DOMAIN stack : stack[i].var # v

====
